---- MODULE Spec2Model ----
(***************************************************************************)
(* A model of whoopy's asynchronous client:                                *)
(*   - whoopy/utils/retry.py : RetryConfig, calculate_backoff_delay,       *)
(*     retry_with_backoff, RetryableSession                                *)
(*   - whoopy/client_v2.py   : WhoopClientV2.__aenter__, check_response,   *)
(*     refresh_token, request                                              *)
(* Coroutines are tasks of one event loop: a task runs from one await to   *)
(* the next as one step, and any other task may run at an await.           *)
(* Durations are in tenths of a second (1.0 s = 10).                       *)
(***************************************************************************)
EXTENDS Integers, Sequences, FiniteSets, TLC

VARIABLES
    token_info,          \* WhoopClientV2.token_info
    auto_refresh_token,  \* WhoopClientV2.auto_refresh_token
    oauth_helper,        \* WhoopClientV2._oauth_helper is not None
    retry_config,        \* WhoopClientV2.retry_config / the decorator's config
    session,             \* WhoopClientV2._session: "none" or "open"
    headers,             \* the session's Authorization header
    issued,              \* number of tokens the token endpoint has issued
    task,                \* the coroutines using the library
    fn,                  \* one function under study: its input, progress, result
    opened,              \* number of ClientSession objects __aenter__ has created
    closed               \* which of them (1..opened) have been closed

vars == <<token_info, auto_refresh_token, oauth_helper, retry_config,
          session, headers, issued, task, fn, opened, closed>>

-----------------------------------------------------------------------------
(* Bounds of the model *)

NumTasks == 2
MaxEnters == 2
MaxDepth == 2
MaxPages == 3
MaxPageSize == 2

MaxAttempts == 3

MaxRetryAfter == 2

Tasks == 1..NumTasks

-----------------------------------------------------------------------------
(* Values *)

\* Python's None / an int, for Optional[int]
NoInt == [some |-> FALSE, n |-> 0]

SomeInt(n) == [some |-> TRUE, n |-> n]

\* TokenInfo: None, or a token with its access token and optional refresh
\* token; is_expired: its issuance + ttl lies in the past
NoToken ==
    [held |-> FALSE, token_type |-> "", access_token |-> 0, refresh_token |-> FALSE,
     is_expired |-> FALSE]

Token(a, r) ==
    [held |-> TRUE, token_type |-> "Bearer", access_token |-> a, refresh_token |-> r,
     is_expired |-> FALSE]

\* a token loaded after its expiry
ExpiredToken(a, r) == [Token(a, r) EXCEPT !.is_expired = TRUE]

\* The Authorization header value f"{token_type} {access_token}"; <<>> = no header
NoHeader == <<>>

AuthHeader(tok) == <<tok.token_type, tok.access_token>>

\* The error categories of whoopy.exceptions, as distinct tags
WhoopExceptions ==
    {"WhoopException", "AuthenticationError", "TokenExpiredError",
     "RefreshTokenError", "ValidationError", "ResourceNotFoundError",
     "RateLimitError", "ServerError", "ConfigurationError"}

\* builtin exceptions the code can let escape
BuiltinExceptions == {"RuntimeError", "AttributeError", "ValueError"}

\* An exception (NoError: none), with the fields the taxonomy carries
NoError == [type |-> "none", retry_after |-> NoInt, status |-> 0]

Exc(type, ra, st) == [type |-> type, retry_after |-> ra, status |-> st]

\* The Retry-After header of a response: absent, a decimal integer, or another
\* value (an HTTP date)
HdrAbsent == [present |-> FALSE, int |-> FALSE, n |-> 0]

HdrInt(n) == [present |-> TRUE, int |-> TRUE, n |-> n]

HdrDate == [present |-> TRUE, int |-> FALSE, n |-> 0]

NoResponse == [status |-> 0, retry_after |-> HdrAbsent]

Response(st, h) == [status |-> st, retry_after |-> h]

-----------------------------------------------------------------------------
(* RetryConfig (retry.py 18-27) *)

DefaultRetryOn == {"RateLimitError", "ServerError"}

RetryConfig(ma, bd, md, eb, j, ro) ==
    [max_attempts |-> ma, base_delay |-> bd, max_delay |-> md,
     exponential_base |-> eb, jitter |-> j, retry_on |-> ro]

\* the configurations the model draws from; delays in tenths of a second
RetryConfigs ==
    { RetryConfig(ma, 10, md, 2, j, ro) :
        ma \in 0..MaxAttempts, md \in {15, 600}, j \in BOOLEAN,
        ro \in {DefaultRetryOn, {"ServerError"}} }

\* random.uniform(0, 1) and random.uniform(0.8, 1.2), in tenths
Uniform01 == {0, 5, 10}

Uniform0812 == {8, 10, 12}

\* the pairs <<u01, u>> of jitter draws a delay computation can see; it reads
\* at most one of the two, and none with jitter off
JitterDraws(config) ==
    IF config.jitter
    THEN { <<u01, 10>> : u01 \in Uniform01 } \cup { <<0, u>> : u \in Uniform0812 }
    ELSE { <<0, 10>> }

Min(a, b) == IF a <= b THEN a ELSE b

RECURSIVE Pow(_, _)
Pow(b, e) == IF e <= 0 THEN 1 ELSE b * Pow(b, e - 1)

\* the exponential branch returning its delay uncapped
calculate_backoff_delay_NoCap(attempt, config, retry_after, u01, u) ==
    IF retry_after.some
    THEN LET delay == 10 * retry_after.n
             jittered == IF config.jitter THEN delay + u01 ELSE delay
         IN  Min(jittered, config.max_delay)
    ELSE LET delay == config.base_delay * Pow(config.exponential_base, attempt)
         IN  IF config.jitter THEN (delay * u) \div 10 ELSE delay

\* the hinted branch with its jitter subtracted from the hint
calculate_backoff_delay_JitterBelow(attempt, config, retry_after, u01, u) ==
    IF retry_after.some
    THEN LET delay == 10 * retry_after.n
             jittered == IF config.jitter THEN delay - u01 ELSE delay
         IN  Min(jittered, config.max_delay)
    ELSE LET delay == config.base_delay * Pow(config.exponential_base, attempt)
             jittered == IF config.jitter THEN (delay * u) \div 10 ELSE delay
         IN  Min(jittered, config.max_delay)

\* retry.py 30-46; u01 and u are the two jitter draws
calculate_backoff_delay(attempt, config, retry_after, u01, u) ==
    IF retry_after.some
    THEN LET delay == 10 * retry_after.n
             jittered == IF config.jitter THEN delay + u01 ELSE delay
         IN  Min(jittered, config.max_delay)
    ELSE LET delay == config.base_delay * Pow(config.exponential_base, attempt)
             jittered == IF config.jitter THEN (delay * u) \div 10 ELSE delay
         IN  Min(jittered, config.max_delay)

-----------------------------------------------------------------------------
(* retry_with_backoff.wrapper (retry.py 56-82) *)

\* a handler that catches every exception
InRetryOn_Any(config, e) == TRUE

\* `except config.retry_on as e`
InRetryOn(config, e) == e.type \in config.retry_on

\* the last-attempt test off by one
IsLastAttempt_OffByOne(config, attempt) == attempt = config.max_attempts

\* a wrapper without the last-attempt test
IsLastAttempt_Never(config, attempt) == FALSE

\* `if attempt == config.max_attempts - 1: raise`
IsLastAttempt(config, attempt) == attempt = config.max_attempts - 1

\* retry.py 70-72
HintOf(e) == IF e.type = "RateLimitError" THEN e.retry_after ELSE NoInt

\* a wrapper that numbers its attempts from 1 in the delay
WrapperOnFailure_CountsFromOne(config, attempt, e, u01, u) ==
    IF InRetryOn(config, e) /\ ~IsLastAttempt(config, attempt)
    THEN [act |-> "sleep",
          delay |-> calculate_backoff_delay(attempt + 1, config, HintOf(e), u01, u)]
    ELSE [act |-> "raise", delay |-> 0]

\* what the wrapper does with a failure e of the attempt-th invocation:
\* propagate it, or sleep `delay` and go round the loop
WrapperOnFailure(config, attempt, e, u01, u) ==
    IF InRetryOn(config, e) /\ ~IsLastAttempt(config, attempt)
    THEN [act |-> "sleep",
          delay |-> calculate_backoff_delay(attempt, config, HintOf(e), u01, u)]
    ELSE [act |-> "raise", delay |-> 0]

-----------------------------------------------------------------------------
(* WhoopClientV2 *)

\* client_v2.py 155: RetryableSession(self._session, self.retry_config) passes
\* no check_response_func, so RetryableSession.check_response_func is None
check_response_func == FALSE

\* the 401 branch without its auto_refresh_token test
CanRefresh_IgnoresFlag == token_info.held /\ token_info.refresh_token

\* a 401 branch that also asks for client credentials
CanRefresh_NeedsHelper ==
    auto_refresh_token /\ token_info.held /\ token_info.refresh_token /\ oauth_helper

\* client_v2.py 198
CanRefresh == auto_refresh_token /\ token_info.held /\ token_info.refresh_token

\* the 429 branch without its Retry-After lookup
RateLimitOutcome_DropsHint(resp) == Exc("RateLimitError", NoInt, 0)

\* client_v2.py 208-213: int(retry_after) if retry_after else None
RateLimitOutcome(resp) ==
    IF ~resp.retry_after.present THEN Exc("RateLimitError", NoInt, 0)
    ELSE IF resp.retry_after.int
         THEN Exc("RateLimitError", SomeInt(resp.retry_after.n), 0)
         ELSE Exc("ValueError", NoInt, 0)

\* client_v2.py 171-224: NoError when it returns, else the exception raised
check_response(resp) ==
    IF resp.status = 200 THEN NoError
    ELSE IF resp.status = 400 THEN Exc("ValidationError", NoInt, 0)
    ELSE IF resp.status = 401
         THEN IF CanRefresh THEN Exc("TokenExpiredError", NoInt, 0)
              ELSE Exc("AuthenticationError", NoInt, 0)
    ELSE IF resp.status = 404 THEN Exc("ResourceNotFoundError", NoInt, 0)
    ELSE IF resp.status = 429 THEN RateLimitOutcome(resp)
    ELSE IF resp.status >= 500 THEN Exc("ServerError", NoInt, resp.status)
    ELSE Exc("WhoopException", NoInt, resp.status)

\* response bodies: a JSON object, a JSON array, text that is not JSON
Body(kind, raw) == [kind |-> kind, raw |-> raw]
Bodies == { Body("object", "{\"field\": \"bad\"}"), Body("array", "[1]"),
            Body("text", "oops") }

\* Python values built from a body
NoData == [type |-> "NoneType", of |-> ""]
Data(type, raw) == [type |-> type, of |-> raw]

\* client_v2.py 185-188: response.json(), or response.text() when that fails
error_data(body) ==
    IF body.kind = "object" THEN Data("dict", body.raw)
    ELSE IF body.kind = "array" THEN Data("list", body.raw)
    ELSE Data("str", body.raw)

\* client_v2.py 194
validation_errors(body) ==
    IF error_data(body).type = "dict" THEN error_data(body) ELSE NoData

\* nothing raised, nothing carried
NoOutcome == [exc |-> NoError, validation_errors |-> NoData,
              details |-> [status |-> 0, response |-> NoData]]

\* client_v2.py 171-224: the exception raised with the attributes it carries
check_response_raised(resp, body) ==
    LET e == check_response(resp) IN
    IF e.type \in {"none", "ValueError"}
    THEN [NoOutcome EXCEPT !.exc = e]
    ELSE [exc |-> e,
          validation_errors |-> IF e.type = "ValidationError"
                                THEN validation_errors(body) ELSE NoData,
          details |-> [status |-> resp.status, response |-> error_data(body)]]

-----------------------------------------------------------------------------
(* Tasks: one coroutine each, calling WhoopClientV2.request ("request") or a  *)
(* function decorated with retry_with_backoff(retry_config) ("retry")         *)

NewTask(api) ==
    [api |-> api,
     pc |-> IF api = "off" THEN "done" ELSE "idle",
     phase |-> 1,          \* 1: in request's try block, 2: in its except block
     where |-> "client",   \* who awaits response.json(): "wrapper" or "client"
     attempt |-> 0,        \* the wrapper's loop variable
     calls |-> 0,          \* invocations of the wrapped function so far
     waits |-> 0,          \* asyncio.sleep calls so far
     waited |-> 0,         \* their total duration
     refreshes |-> 0,      \* token endpoint calls made by this task
     resp |-> NoResponse,  \* the response in hand
     seen |-> {},          \* the responses the transport has given this task
     ops |-> {},           \* the outcomes the wrapped function has had
     last |-> NoError,     \* the failure of the latest invocation
     sid |-> 0,            \* the session the request in flight was issued on
     auth |-> NoHeader,    \* the Authorization header that request carries
     onclosed |-> FALSE,   \* a request was attempted on a closed session
     inloop |-> FALSE,     \* called while an event loop was running
     cancelled |-> FALSE,  \* the task was cancelled
     result |-> "none",    \* "response", "value", "None" or "raised"
     err |-> NoError]      \* the exception surfaced to the caller

\* the call returns `result` or raises e; no request of it is in flight
Finish(r, result, e) ==
    [r EXCEPT !.pc = "done", !.result = result, !.err = e,
              !.sid = 0, !.auth = NoHeader]

\* retry.py 61: `await func(*args, **kwargs)`, the attempt-th invocation
Invoke(r, attempt) ==
    [r EXCEPT !.pc = "infunc", !.attempt = attempt, !.calls = @ + 1]

\* retry.py 59 and 79-82: with range(max_attempts) empty the loop body never
\* runs, last_exception is None and the wrapper returns None
WrapperReturnsNone(config) == config.max_attempts <= 0

\* client_v2.py 271-279 / 284-292: self.retry_session.request(...), then
\* check_response(response); check_response(None) raises AttributeError
\* (aiohttp's ClientSession.request raises RuntimeError on a closed session)
IssueRequest(r, phase) ==
    IF WrapperReturnsNone(retry_config)
    THEN Finish([r EXCEPT !.phase = phase], "raised", Exc("AttributeError", NoInt, 0))
    ELSE IF session = "closed"
    THEN Finish([r EXCEPT !.phase = phase, !.onclosed = TRUE, !.calls = @ + 1],
                "raised", Exc("RuntimeError", NoInt, 0))
    ELSE Invoke([r EXCEPT !.phase = phase], 0)

\* retry.py 101-105: session.request sends on the client's current session
\* with that session's default headers
Carry(r, h) ==
    IF r.pc = "infunc" /\ r.api # "retry"
    THEN [r EXCEPT !.sid = opened, !.auth = h]
    ELSE r

BaseExceptions == {"CancelledError"}

\* a handler that catches BaseException too
CaughtByExceptException_Bare(e) == TRUE

\* client_v2.py 243: `except Exception`; asyncio.CancelledError derives from
\* BaseException
CaughtByExceptException(e) == e.type \notin BaseExceptions

\* client_v2.py 234-244: e is raised inside refresh_token's try block
RefreshRaised(r, e) ==
    IF CaughtByExceptException(e)
    THEN Finish(r, "raised", Exc("RefreshTokenError", NoInt, 0))
    ELSE Finish(r, "raised", e)

\* a test that asks only for a token
HoldsRefreshToken_AnyToken(tok) == tok.held

\* client_v2.py 231: self.token_info and self.token_info.refresh_token
HoldsRefreshToken(tok) == tok.held /\ tok.refresh_token

\* client_v2.py 226-238: refresh_token up to its await; without an open
\* session `self.session` (93-98) or the post on it raises RuntimeError
BeginRefresh(r) ==
    IF ~oauth_helper
    THEN Finish(r, "raised", Exc("ConfigurationError", NoInt, 0))
    ELSE IF ~HoldsRefreshToken(token_info)
    THEN Finish(r, "raised", Exc("RefreshTokenError", NoInt, 0))
    ELSE IF session # "open"
    THEN RefreshRaised(r, Exc("RuntimeError", NoInt, 0))
    ELSE [r EXCEPT !.pc = "refreshing", !.refreshes = @ + 1]

\* a handler that also guards the re-issued request
CaughtForRefresh_AnyPhase(r, e) == e.type = "TokenExpiredError"

\* a handler that refreshes on every failure of the first request
CaughtForRefresh_AnyError(r, e) == r.phase = 1

\* client_v2.py 281-283: `except TokenExpiredError` guards the try block only
CaughtForRefresh(r, e) == e.type = "TokenExpiredError" /\ r.phase = 1

\* client_v2.py 270-292: an exception e leaves retry_session.request or
\* check_response
Propagate(r, e) ==
    IF CaughtForRefresh(r, e) THEN BeginRefresh(r) ELSE Finish(r, "raised", e)

\* retry.py 62-77: the wrapped function raised e
OnFailure(r, e, u01, u) ==
    LET d == WrapperOnFailure(retry_config, r.attempt, e, u01, u)
        r1 == [r EXCEPT !.last = e]
    IN  IF d.act = "sleep"
        THEN [r1 EXCEPT !.pc = "sleeping", !.waits = @ + 1, !.waited = @ + d.delay]
        ELSE IF r.api = "request" THEN Propagate(r1, e) ELSE Finish(r1, "raised", e)

\* refresh_token without its header update
RefreshedHeader_Stale(old, tok) == old

\* OAuth2Helper.refresh_access_token returning: the n-th token the endpoint
\* issues, with or without a refresh token (the response's refresh_token is
\* optional)
refresh_access_token(n, hasRefresh) == Token(n, hasRefresh)

\* client_v2.py 241
RefreshedHeader(old, tok) == AuthHeader(tok)

\* refresh_token dropping the token it is given
NewTokenInfo_Kept(old, tok) == old

\* client_v2.py 235: self.token_info = await ...refresh_access_token(...)
NewTokenInfo(old, tok) == tok

-----------------------------------------------------------------------------
(* The environment's inputs *)

Statuses == {200, 201, 400, 401, 404, 429, 503}

Responses ==
    { Response(st, HdrAbsent) : st \in Statuses }
    \cup { Response(429, HdrInt(h)) : h \in 1..MaxRetryAfter }
    \cup { Response(429, HdrDate) }

\* what a function wrapped by retry_with_backoff can do: return, or raise
OpOutcomes ==
    { NoError, Exc("RateLimitError", NoInt, 0), Exc("ServerError", NoInt, 500),
      Exc("ValueError", NoInt, 0) }
    \cup { Exc("RateLimitError", SomeInt(h), 0) : h \in 0..MaxRetryAfter }

\* what a rejected or failed token exchange raises
RefreshFailures ==
    { Exc("AuthenticationError", NoInt, 0), Exc("ClientConnectionError", NoInt, 0) }

InitialTokens == {NoToken, Token(0, TRUE), Token(0, FALSE)}

\* the client's retry_config: the defaults of RetryConfig but for max_attempts,
\* which is none, one or several
ClientRetryConfigs ==
    { c \in RetryConfigs :
        /\ c.jitter /\ c.max_delay = 600 /\ c.retry_on = DefaultRetryOn
        /\ c.max_attempts \in {0, 1, MaxAttempts} }

\* RetryConfig(): the defaults
DefaultRetryConfig == RetryConfig(MaxAttempts, 10, 600, 2, TRUE, DefaultRetryOn)

-----------------------------------------------------------------------------
(* Actions *)

\* a sleep that holds the event loop for its duration
SleepYields_Blocking == FALSE

\* retry.py 77: `await asyncio.sleep(delay)` suspends the task that waits and
\* hands the event loop to the others
SleepYields == TRUE

\* the event loop can run task t
Runnable(t) == SleepYields \/ \A u \in Tasks \ {t} : task[u].pc # "sleeping"

\* task t runs and its record becomes r
Set(t, r) == Runnable(t) /\ task' = [task EXCEPT ![t] = r]

ClientUnchanged ==
    UNCHANGED <<token_info, auto_refresh_token, oauth_helper, retry_config,
                session, headers, issued, fn, opened, closed>>

\* client_v2.py 143-164
AEnter ==
    /\ session = "none"
    /\ \E t \in Tasks : task[t].api = "request"
    /\ session' = "open"
    /\ headers' = IF token_info.held THEN AuthHeader(token_info) ELSE NoHeader
    /\ opened' = opened + 1
    /\ UNCHANGED <<token_info, auto_refresh_token, oauth_helper, retry_config,
                   issued, task, fn, closed>>

\* client_v2.py 246-277; the retry_session property (100-105) raises
\* RuntimeError outside the context manager
RequestStart(t) ==
    /\ task[t].api = "request"
    /\ task[t].pc = "idle"
    /\ Set(t, IF session = "none"
              THEN Finish(task[t], "raised", Exc("RuntimeError", NoInt, 0))
              ELSE Carry(IssueRequest(task[t], 1), headers))
    /\ ClientUnchanged

\* retry.py 101-105 and client_v2.py 181-188: session.request answers; a 200
\* passes every check at once, any other status has its body awaited first
TransportRespond(t, resp) ==
    /\ task[t].api = "request"
    /\ task[t].pc = "infunc"
    /\ LET r == [task[t] EXCEPT !.resp = resp, !.seen = @ \cup {resp}]
       IN  Set(t, IF check_response(resp) = NoError
                  THEN Finish(r, "response", NoError)
                  ELSE [r EXCEPT !.pc = "body",
                                 !.where = IF check_response_func
                                           THEN "wrapper" ELSE "client"])
    /\ ClientUnchanged

\* client_v2.py 190-224 after `await response.json()`, and what the raised
\* exception does in retry_with_backoff / request
BodyRead(t) ==
    /\ task[t].pc = "body"
    /\ LET e == check_response(task[t].resp)
       IN  IF task[t].where = "wrapper"
           THEN \E j \in JitterDraws(retry_config) :
                   Set(t, OnFailure(task[t], e, j[1], j[2]))
           ELSE Set(t, Propagate(task[t], e))
    /\ ClientUnchanged

\* client_v2.py 235-241 and 284-290: the token endpoint issues a token; it
\* replaces token_info, the header follows, and the request is re-issued
RefreshSucceed(t, hasRefresh) ==
    /\ task[t].pc = "refreshing"
    /\ LET tok == refresh_access_token(issued + 1, hasRefresh)
       IN  /\ token_info' = NewTokenInfo(token_info, tok)
           /\ headers' = RefreshedHeader(headers, tok)
    /\ issued' = issued + 1
    /\ Set(t, IF task[t].api = "refresh"
              THEN Finish(task[t], "None", NoError)
              ELSE Carry(IssueRequest(task[t], 2), headers'))
    /\ UNCHANGED <<auto_refresh_token, oauth_helper, retry_config, session, fn,
                   opened, closed>>

\* a handler that drops the credential when the exchange fails
TokenOnRefreshFailure_Reset(old) == NoToken

\* client_v2.py 243-244: the handler only raises; the assignment of line 235
\* has not happened and token_info is the one held before the call
TokenOnRefreshFailure(old) == old

\* client_v2.py 243-244: the exchange raised e
RefreshFail(t, e) ==
    /\ task[t].pc = "refreshing"
    /\ Set(t, RefreshRaised(task[t], e))
    /\ token_info' = TokenOnRefreshFailure(token_info)
    /\ UNCHANGED <<auto_refresh_token, oauth_helper, retry_config, session,
                   headers, issued, fn, opened, closed>>

\* retry.py 56-61: a decorated function is called
OpStart(t) ==
    /\ task[t].api = "retry"
    /\ task[t].pc = "idle"
    /\ Set(t, IF WrapperReturnsNone(retry_config)
              THEN Finish(task[t], "None", NoError)
              ELSE Invoke(task[t], 0))
    /\ ClientUnchanged

\* retry.py 61-77: the decorated function returns or raises
OpComplete(t, e) ==
    /\ task[t].api = "retry"
    /\ task[t].pc = "infunc"
    /\ LET r == [task[t] EXCEPT !.ops = @ \cup {e}]
       IN  IF e = NoError
           THEN Set(t, Finish(r, "value", NoError))
           ELSE \E j \in JitterDraws(retry_config) :
                   Set(t, OnFailure(r, e, j[1], j[2]))
    /\ ClientUnchanged

\* retry.py 77 and 59-61: asyncio.sleep returns, the loop invokes again
BackoffWake(t) ==
    /\ task[t].pc = "sleeping"
    /\ Set(t, Carry(Invoke(task[t], task[t].attempt + 1), headers))
    /\ ClientUnchanged

-----------------------------------------------------------------------------
(* Specification *)

\* a program whose tasks all call request on one client
InitClient ==
    /\ token_info \in InitialTokens
    /\ auto_refresh_token \in BOOLEAN
    /\ oauth_helper \in BOOLEAN
    /\ retry_config \in ClientRetryConfigs
    /\ task = [t \in Tasks |-> NewTask("request")]

\* a program calling one decorated function
InitRetry ==
    /\ token_info = NoToken
    /\ auto_refresh_token = TRUE
    /\ oauth_helper = FALSE
    /\ retry_config \in RetryConfigs
    /\ task = [t \in Tasks |-> NewTask(IF t = 1 THEN "retry" ELSE "off")]

\* no pure function is being applied
NoCall == [f |-> "none"]

Init ==
    /\ session = "none"
    /\ headers = NoHeader
    /\ issued = 0
    /\ fn = NoCall
    /\ opened = 0
    /\ closed = {}
    /\ (InitClient \/ InitRetry)

Next ==
    \/ AEnter
    \/ \E t \in Tasks : RequestStart(t)
    \/ \E t \in Tasks, resp \in Responses : TransportRespond(t, resp)
    \/ \E t \in Tasks : BodyRead(t)
    \/ \E t \in Tasks, hasRefresh \in BOOLEAN : RefreshSucceed(t, hasRefresh)
    \/ \E t \in Tasks, e \in RefreshFailures : RefreshFail(t, e)
    \/ \E t \in Tasks : OpStart(t)
    \/ \E t \in Tasks, e \in OpOutcomes : OpComplete(t, e)
    \/ \E t \in Tasks : BackoffWake(t)

Spec == Init /\ [][Next]_vars

\* the steps task t can take
TaskStep(t) ==
    \/ RequestStart(t)
    \/ \E resp \in Responses : TransportRespond(t, resp)
    \/ BodyRead(t)
    \/ \E hasRefresh \in BOOLEAN : RefreshSucceed(t, hasRefresh)
    \/ \E e \in RefreshFailures : RefreshFail(t, e)
    \/ OpStart(t)
    \/ \E e \in OpOutcomes : OpComplete(t, e)
    \/ BackoffWake(t)

-----------------------------------------------------------------------------
(* save_token applied to drawn paths and file systems *)

\* a path is the sequence of its components, the file name last; a relative
\* path with no directory component has length 1
DirNames == {"a", "b"}
FileName == ".whoop_credentials.json"
AllDirs == UNION { [1..n -> DirNames] : n \in 1..MaxDepth }
Paths == { Append(d, FileName) : d \in AllDirs \cup {<<>>} }

\* os.path.dirname: "" (here <<>>) when the path has no directory component
dirname(path) == SubSeq(path, 1, Len(path) - 1)

\* the directories that exist: each with all its ancestors
FileSystems ==
    { D \in SUBSET AllDirs :
        \A d \in D : Len(d) > 1 => SubSeq(d, 1, Len(d) - 1) \in D }

\* os.makedirs(d, exist_ok=True): os.makedirs("") raises FileNotFoundError
makedirs(d, dirs) ==
    IF d = <<>>
    THEN [exc |-> Exc("FileNotFoundError", NoInt, 0), dirs |-> dirs]
    ELSE [exc |-> NoError,
          dirs |-> dirs \cup { SubSeq(d, 1, n) : n \in 1..Len(d) }]

\* open(path, 'w'): the directory of the file exists, or is the current one
open_w(path, dirs) ==
    IF dirname(path) = <<>> \/ dirname(path) \in dirs
    THEN NoError ELSE Exc("FileNotFoundError", NoInt, 0)

\* OAuth2Helper.save_token: creates the parent directories and writes the file
helper_save_token(tok, path, dirs) ==
    [exc |-> NoError,
     dirs |-> dirs \cup { SubSeq(path, 1, n) : n \in 1..(Len(path) - 1) },
     saved |-> {<<path, tok>>}]

\* client_v2.py 433-444
save_token(tok, helper, path, dirs) ==
    IF ~tok.held
    THEN [exc |-> Exc("ValueError", NoInt, 0), dirs |-> dirs, saved |-> {}]
    ELSE IF helper THEN helper_save_token(tok, path, dirs)
    ELSE LET m == makedirs(dirname(path), dirs) IN
         IF m.exc # NoError
         THEN [exc |-> m.exc, dirs |-> m.dirs, saved |-> {}]
         ELSE IF open_w(path, m.dirs) # NoError
         THEN [exc |-> open_w(path, m.dirs), dirs |-> m.dirs, saved |-> {}]
         ELSE [exc |-> NoError, dirs |-> m.dirs, saved |-> {<<path, tok>>}]

InitSave ==
    /\ token_info \in InitialTokens
    /\ auto_refresh_token = TRUE
    /\ oauth_helper \in BOOLEAN
    /\ retry_config = DefaultRetryConfig
    /\ session = "none"
    /\ headers = NoHeader
    /\ issued = 0
    /\ opened = 0
    /\ closed = {}
    /\ task = [t \in Tasks |-> NewTask("off")]
    /\ \E path \in Paths, dirs \in FileSystems :
          fn = [f |-> "save_token", path |-> path, dirs |-> dirs, done |-> FALSE,
                out |-> [exc |-> NoError, dirs |-> dirs, saved |-> {}]]

\* client_v2.py 433-444
ApplySave ==
    /\ fn.f = "save_token"
    /\ ~fn.done
    /\ fn' = [fn EXCEPT !.done = TRUE,
                        !.out = save_token(token_info, oauth_helper,
                                           fn.path, fn.dirs)]
    /\ UNCHANGED <<token_info, auto_refresh_token, oauth_helper, retry_config,
                   session, headers, issued, task, opened, closed>>

SpecSave == InitSave /\ [][ApplySave]_vars

-----------------------------------------------------------------------------
(* The pagination engine: get_all and iterate of a collection handler, called *)
(* on an entered WhoopClientV2 ("async") or through WhoopClientV2Sync ("sync") *)

\* the sum of the first n entries of a sequence of numbers
RECURSIVE SumTo(_, _)
SumTo(sizes, n) == IF n = 0 THEN 0 ELSE SumTo(sizes, n - 1) + sizes[n]

\* the server's collection: page i holds sizes[i] records, numbered in order
\* over the whole collection, and a continuation token unless it is the last
ServerPage(sizes, i) ==
    [records |-> [j \in 1..sizes[i] |-> SumTo(sizes, i - 1) + j],
     next_token |-> IF i < Len(sizes) THEN SomeInt(i + 1) ELSE NoInt]

\* the page a fetch with this cursor asks for: no cursor = the first page
PageOf(cursor) == IF cursor.some THEN cursor.n ELSE 1

Collections == UNION { [1..n -> 0..MaxPageSize] : n \in 1..MaxPages }

AllRecords(sizes) == [j \in 1..SumTo(sizes, Len(sizes)) |-> j]

\* a walk that goes on while pages are not empty
HasMore_NonEmptyPage(page) == Len(page.records) > 0

\* the walk goes on exactly when the page carries a continuation token
HasMore(page) == page.next_token.some

\* a get_all that returns all it has accumulated
Truncate_Nothing(records, max_records) == records

\* get_all truncates to exactly max_records when given
Truncate(records, max_records) ==
    IF max_records.some /\ Len(records) > max_records.n
    THEN SubSeq(records, 1, max_records.n)
    ELSE records

\* get_all stops accumulating once max_records is reached
Reached(records, max_records) ==
    max_records.some /\ Len(records) >= max_records.n

NewWalk(f, mode, sizes, max_records) ==
    [f |-> f, mode |-> mode, sizes |-> sizes, max_records |-> max_records,
     pc |-> "start",       \* "start", "fetching", "yielding", "done"
     cursor |-> NoInt,     \* the continuation token of the next fetch
     fetches |-> 0,        \* page fetches issued
     inflight |-> 0,       \* page fetches issued and not answered
     page |-> <<>>,        \* records of the page in hand
     pos |-> 0,            \* records of it already yielded
     items |-> <<>>,       \* records accumulated (get_all) or yielded (iterate)
     out |-> [exc |-> NoError, value |-> <<>>]]

\* the walk ends: it returns value, or raises e
WalkEnd(w, value, e) ==
    [w EXCEPT !.pc = "done", !.page = <<>>, !.pos = 0,
              !.out = [exc |-> e, value |-> value]]

\* a page fetch goes through WhoopClientV2.request on the client's session
FetchPage(w, cursor) ==
    IF session # "open"
    THEN WalkEnd([w EXCEPT !.fetches = @ + 1], <<>>, Exc("RuntimeError", NoInt, 0))
    ELSE [w EXCEPT !.pc = "fetching", !.cursor = cursor, !.fetches = @ + 1,
                   !.inflight = @ + 1, !.page = <<>>, !.pos = 0]

\* what a walk does with a page, or once its records are exhausted
AfterPage(w, page) ==
    IF HasMore(page) THEN FetchPage(w, page.next_token)
    ELSE WalkEnd(w, w.items, NoError)

WalkUnchanged ==
    UNCHANGED <<token_info, auto_refresh_token, oauth_helper, retry_config,
                session, headers, issued, task, opened, closed>>

IsWalk == fn.f \in {"get_all", "iterate"}

\* sync_wrapper.py 83-104: the walk is called and issues its first fetch
WalkStart ==
    /\ IsWalk /\ fn.pc = "start"
    /\ fn' = FetchPage(fn, NoInt)
    /\ WalkUnchanged

\* the fetch in flight is answered with its page
WalkPage ==
    /\ IsWalk /\ fn.pc = "fetching"
    /\ LET page == ServerPage(fn.sizes, PageOf(fn.cursor))
           w == [fn EXCEPT !.inflight = @ - 1]
       IN  IF fn.f = "get_all"
           THEN LET acc == w.items \o page.records
                    w1 == [w EXCEPT !.items = acc]
                IN  fn' = IF Reached(acc, fn.max_records)
                          THEN WalkEnd(w1, Truncate(acc, fn.max_records), NoError)
                          ELSE IF HasMore(page)
                          THEN FetchPage(w1, page.next_token)
                          ELSE WalkEnd(w1, Truncate(acc, fn.max_records), NoError)
           ELSE fn' = IF Len(page.records) = 0
                      THEN AfterPage(w, page)
                      ELSE [w EXCEPT !.pc = "yielding", !.page = page.records,
                                     !.pos = 0]
    /\ WalkUnchanged

\* iterate yields the next record of the page in hand; sync_wrapper.py 98-100
\* appends it to the list; after the last record of a page the walk goes on
WalkYield ==
    /\ fn.f = "iterate" /\ fn.pc = "yielding"
    /\ LET w == [fn EXCEPT !.pos = @ + 1, !.items = Append(@, fn.page[fn.pos + 1])]
       IN  fn' = IF w.pos < Len(w.page) THEN w
                 ELSE AfterPage(w, ServerPage(fn.sizes, PageOf(fn.cursor)))
    /\ WalkUnchanged

\* an entered WhoopClientV2, or the client WhoopClientV2Sync(...) has built
\* (its session opened and closed again by _initialize)
InitWalk ==
    /\ token_info = Token(0, TRUE)
    /\ auto_refresh_token = TRUE
    /\ oauth_helper = TRUE
    /\ retry_config = DefaultRetryConfig
    /\ headers = AuthHeader(token_info)
    /\ issued = 0
    /\ opened = 1
    /\ task = [t \in Tasks |-> NewTask("off")]
    /\ \E mode \in {"async", "sync"}, sizes \in Collections :
          /\ session = IF mode = "async" THEN "open" ELSE "closed"
          /\ closed = IF mode = "async" THEN {} ELSE {1}
          /\ \/ fn = NewWalk("iterate", mode, sizes, NoInt)
             \/ \E k \in {NoInt} \cup
                          { SomeInt(n) : n \in 0..(MaxPages * MaxPageSize + 1) } :
                   fn = NewWalk("get_all", mode, sizes, k)

NextWalk == WalkStart \/ WalkPage \/ WalkYield

SpecWalk == InitWalk /\ [][NextWalk]_vars

-----------------------------------------------------------------------------
(* One call at a time, every await of it returning *)

\* a program making one call: request on a client, or a decorated function
InitOneCall ==
    /\ session = "none"
    /\ headers = NoHeader
    /\ issued = 0
    /\ fn = NoCall
    /\ opened = 0
    /\ closed = {}
    /\ \/ /\ token_info \in InitialTokens
          /\ auto_refresh_token \in BOOLEAN
          /\ oauth_helper \in BOOLEAN
          /\ retry_config \in ClientRetryConfigs
          /\ task = [t \in Tasks |-> NewTask(IF t = 1 THEN "request" ELSE "off")]
       \/ InitRetry

\* the event loop resumes a task whose await has completed, and every
\* transport call, token exchange, invocation and sleep completes
Fairness == \A t \in Tasks : WF_vars(TaskStep(t))

SpecLive == InitOneCall /\ [][Next]_vars /\ Fairness

-----------------------------------------------------------------------------
(* Requests on a client constructed with a token that has already expired *)

StaleTokens == {ExpiredToken(0, TRUE), ExpiredToken(0, FALSE)}

\* two coroutines calling request on such a client, or one decorated function
InitStale ==
    /\ session = "none"
    /\ headers = NoHeader
    /\ issued = 0
    /\ fn = NoCall
    /\ opened = 0
    /\ closed = {}
    /\ \/ /\ token_info \in StaleTokens
          /\ auto_refresh_token \in BOOLEAN
          /\ oauth_helper \in BOOLEAN
          /\ retry_config \in ClientRetryConfigs
          /\ task = [t \in Tasks |-> NewTask(IF t <= 2 THEN "request" ELSE "off")]
       \/ InitRetry

SpecStale == InitStale /\ [][Next]_vars

-----------------------------------------------------------------------------
(* A decorated function and a client request on one event loop *)

InitShared ==
    /\ session = "none"
    /\ headers = NoHeader
    /\ issued = 0
    /\ fn = NoCall
    /\ opened = 0
    /\ closed = {}
    /\ token_info = Token(0, TRUE)
    /\ auto_refresh_token = TRUE
    /\ oauth_helper = TRUE
    /\ retry_config \in { c \in RetryConfigs : /\ c.max_attempts = MaxAttempts
                                               /\ c.retry_on = DefaultRetryOn
                                               /\ ~c.jitter }
    /\ task = [t \in Tasks |-> IF t = 1 THEN NewTask("retry")
                              ELSE IF t = 2 THEN NewTask("request")
                              ELSE NewTask("off")]

SpecShared == InitShared /\ [][Next]_vars

-----------------------------------------------------------------------------
(* Session lifecycle, the sync facade, refresh_token called directly, and     *)
(* task cancellation                                                          *)

\* client_v2.py 143-164: the context is entered again
AEnterAgain ==
    /\ session # "none"
    /\ opened < MaxEnters
    /\ session' = "open"
    /\ headers' = IF token_info.held THEN AuthHeader(token_info) ELSE NoHeader
    /\ opened' = opened + 1
    /\ UNCHANGED <<token_info, auto_refresh_token, oauth_helper, retry_config,
                   issued, task, fn, closed>>

\* client_v2.py 166-169
AExit ==
    /\ session = "open"
    /\ session' = "closed"
    /\ closed' = closed \cup {opened}
    /\ UNCHANGED <<token_info, auto_refresh_token, oauth_helper, retry_config,
                   headers, issued, task, fn, opened>>

\* a request in flight on a session that has been closed fails
TransportAbort(t) ==
    /\ task[t].api = "request"
    /\ task[t].pc \in {"infunc", "body"}
    /\ task[t].sid \in closed
    /\ Set(t, Propagate(task[t], Exc("ClientConnectionError", NoInt, 0)))
    /\ ClientUnchanged

\* client_v2.py 226-238: refresh_token called by the program
RefreshStart(t) ==
    /\ task[t].api = "refresh"
    /\ task[t].pc = "idle"
    /\ Set(t, BeginRefresh(task[t]))
    /\ ClientUnchanged

\* a task suspended in an await is cancelled: CancelledError is raised there
Cancel(t) ==
    /\ task[t].api \in {"request", "retry", "refresh"}
    /\ task[t].pc \in {"infunc", "body", "sleeping", "refreshing"}
    /\ LET r == [task[t] EXCEPT !.cancelled = TRUE]
           e == Exc("CancelledError", NoInt, 0)
       IN  Set(t, IF r.pc = "refreshing" THEN RefreshRaised(r, e)
                  ELSE IF r.pc = "sleeping" THEN Finish(r, "raised", e)
                  ELSE IF r.pc = "body" /\ r.where = "client" THEN Propagate(r, e)
                  ELSE OnFailure(r, e, 0, 10))
    /\ ClientUnchanged

\* a run_async without its running-loop test
run_async_raises_Never(running) == FALSE

\* sync_wrapper.py 26-38
run_async_raises(running) == running

\* sync_wrapper.py 195-245: WhoopClientV2Sync(...) runs _init under run_async;
\* `async with self._async_client` enters and, on return, exits the context
SyncConstruct(t, running) ==
    /\ task[t].api = "construct"
    /\ task[t].pc = "idle"
    /\ IF run_async_raises(running)
       THEN /\ Set(t, Finish([task[t] EXCEPT !.inloop = running], "raised",
                             Exc("RuntimeError", NoInt, 0)))
            /\ ClientUnchanged
       ELSE /\ Set(t, Finish([task[t] EXCEPT !.inloop = running], "value", NoError))
            /\ session' = "closed"
            /\ headers' = IF token_info.held THEN AuthHeader(token_info) ELSE NoHeader
            /\ opened' = opened + 1
            /\ closed' = closed \cup {opened + 1}
            /\ UNCHANGED <<token_info, auto_refresh_token, oauth_helper,
                           retry_config, issued, fn>>

\* sync_wrapper.py 41-49, 72-104: a method of a sync handler runs the async
\* handler's method, which calls WhoopClientV2.request, under run_async
SyncCall(t, running) ==
    /\ task[t].api = "sync"
    /\ task[t].pc = "idle"
    /\ \E c \in Tasks : task[c].api = "construct" /\ task[c].result = "value"
    /\ Set(t, IF run_async_raises(running)
              THEN Finish([task[t] EXCEPT !.inloop = running], "raised",
                          Exc("RuntimeError", NoInt, 0))
              ELSE Carry(IssueRequest([task[t] EXCEPT !.inloop = running], 1),
                         headers))
    /\ ClientUnchanged

\* a program with two coroutines on one client: one calls request, the other
\* refresh_token or, on a client that can refresh, request
InitLifecycle ==
    /\ token_info \in InitialTokens
    /\ auto_refresh_token \in BOOLEAN
    /\ oauth_helper \in BOOLEAN
    /\ retry_config = DefaultRetryConfig
    /\ \E api2 \in {"request", "refresh"} :
          /\ api2 = "request" =>
                (auto_refresh_token /\ oauth_helper /\ token_info = Token(0, TRUE))
          /\ task = [t \in Tasks |-> IF t = 1 THEN NewTask("request")
                                     ELSE IF t = 2 THEN NewTask(api2)
                                     ELSE NewTask("off")]

\* a program that constructs WhoopClientV2Sync and calls a handler method
InitSync ==
    /\ token_info \in InitialTokens
    /\ auto_refresh_token \in BOOLEAN
    /\ oauth_helper \in BOOLEAN
    /\ retry_config = DefaultRetryConfig
    /\ task = [t \in Tasks |-> IF t = 1 THEN NewTask("construct")
                              ELSE IF t = 2 THEN NewTask("sync")
                              ELSE NewTask("off")]

InitPrograms ==
    /\ session = "none"
    /\ headers = NoHeader
    /\ issued = 0
    /\ fn = NoCall
    /\ opened = 0
    /\ closed = {}
    /\ (InitLifecycle \/ InitSync \/ InitRetry)

NextPrograms ==
    \/ Next
    \/ AEnterAgain
    \/ AExit
    \/ \E t \in Tasks : TransportAbort(t)
    \/ \E t \in Tasks : RefreshStart(t)
    \/ \E t \in Tasks : Cancel(t)
    \/ \E t \in Tasks, running \in BOOLEAN : SyncConstruct(t, running)
    \/ \E t \in Tasks, running \in BOOLEAN : SyncCall(t, running)

SpecPrograms == InitPrograms /\ [][NextPrograms]_vars

-----------------------------------------------------------------------------
(* calculate_backoff_delay applied to drawn inputs *)

\* no client is in use while a pure function is applied
InitIdleClient ==
    /\ token_info = NoToken
    /\ auto_refresh_token = TRUE
    /\ oauth_helper = FALSE
    /\ retry_config = RetryConfig(MaxAttempts, 10, 600, 2, TRUE, DefaultRetryOn)
    /\ session = "none"
    /\ headers = NoHeader
    /\ issued = 0
    /\ opened = 0
    /\ closed = {}
    /\ task = [t \in Tasks |-> NewTask("off")]

\* configurations for the delay computation; delays in tenths of a second
BackoffConfigs ==
    { RetryConfig(MaxAttempts, bd, md, eb, j, DefaultRetryOn) :
        bd \in {0, 10, 20}, md \in {0, 15, 25, 600}, eb \in {1, 2, 3},
        j \in BOOLEAN }

BackoffHints == {NoInt} \cup { SomeInt(h) : h \in 0..(MaxRetryAfter + 1) }

InitBackoff ==
    /\ InitIdleClient
    /\ \E a \in 0..(MaxAttempts + 1), c \in BackoffConfigs, h \in BackoffHints :
        \E j \in JitterDraws(c) :
          fn = [f |-> "calculate_backoff_delay", attempt |-> a, config |-> c,
                retry_after |-> h, u01 |-> j[1], u |-> j[2],
                done |-> FALSE, out |-> 0]

\* retry.py 30-46
ApplyBackoff ==
    /\ fn.f = "calculate_backoff_delay"
    /\ ~fn.done
    /\ fn' = [fn EXCEPT !.done = TRUE,
                        !.out = calculate_backoff_delay(fn.attempt, fn.config,
                                                        fn.retry_after, fn.u01, fn.u)]
    /\ UNCHANGED <<token_info, auto_refresh_token, oauth_helper, retry_config,
                   session, headers, issued, task, opened, closed>>

SpecBackoff == InitBackoff /\ [][ApplyBackoff]_vars

-----------------------------------------------------------------------------
(* check_response applied to drawn responses *)

ClassifyStatuses == 100..599

ClassifyHeaders == {HdrAbsent, HdrDate} \cup { HdrInt(n) : n \in 0..MaxRetryAfter }

InitClassify ==
    /\ token_info \in InitialTokens
    /\ auto_refresh_token \in BOOLEAN
    /\ oauth_helper = FALSE
    /\ retry_config = RetryConfig(MaxAttempts, 10, 600, 2, TRUE, DefaultRetryOn)
    /\ session = "none"
    /\ headers = NoHeader
    /\ issued = 0
    /\ opened = 0
    /\ closed = {}
    /\ task = [t \in Tasks |-> NewTask("off")]
    /\ \E st \in ClassifyStatuses, h \in ClassifyHeaders, b \in Bodies :
          fn = [f |-> "check_response", resp |-> Response(st, h), body |-> b,
                done |-> FALSE, out |-> NoOutcome]

\* client_v2.py 171-224
ApplyClassify ==
    /\ fn.f = "check_response"
    /\ ~fn.done
    /\ fn' = [fn EXCEPT !.done = TRUE,
                        !.out = check_response_raised(fn.resp, fn.body)]
    /\ UNCHANGED <<token_info, auto_refresh_token, oauth_helper, retry_config,
                   session, headers, issued, task, opened, closed>>

SpecClassify == InitClassify /\ [][ApplyClassify]_vars

-----------------------------------------------------------------------------
(* Vocabulary of the properties *)

IsReq(t) == task[t].api = "request"

IsOp(t) == task[t].api = "retry"

Done(t) == task[t].pc = "done"

Raised(t) == Done(t) /\ task[t].result = "raised"

\* task t takes a step
Steps(t) == task'[t] # task[t]

\* a failure the wrapper's retry_on does not name
NonRetryable(e) == e # NoError /\ e.type \notin retry_config.retry_on

\* refresh_token raised instead of returning
RefreshFailed(t) ==
    Raised(t) /\ task[t].phase = 1
    /\ task[t].err.type \in {"RefreshTokenError", "ConfigurationError"}

Refreshing == { t \in Tasks : task[t].pc = "refreshing" }

-----------------------------------------------------------------------------
(* Retry of transient failures by the dispatcher *)

\* C1 (as claimed): a request that surfaces RateLimitError or ServerError has
\* issued it retry_config.max_attempts times (attempts 0 .. max_attempts - 1 of
\* the retried call) before surfacing the error.
C1_SurfacedOnlyAfterBudget ==
    \A t \in Tasks :
        (IsReq(t) /\ Raised(t)
         /\ task[t].err.type \in {"RateLimitError", "ServerError"}
         /\ task[t].err.type \in retry_config.retry_on)
        => task[t].attempt + 1 = retry_config.max_attempts

\* C2 (as claimed): with max_attempts >= 2 and a transport that always answers
\* 429 with Retry-After: h, h <= max_delay, a finished request has raised
\* RateLimitError after at least two transport calls and a total wait >= h.
C2_RateLimitedWaitsHint ==
    \A t \in Tasks : \A h \in 1..MaxRetryAfter :
        (IsReq(t) /\ Done(t)
         /\ retry_config.max_attempts >= 2
         /\ 10 * h <= retry_config.max_delay
         /\ task[t].seen = {Response(429, HdrInt(h))})
        => /\ task[t].err.type = "RateLimitError"
           /\ task[t].calls >= 2
           /\ task[t].waited >= 10 * h

-----------------------------------------------------------------------------
(* Refresh on 401 *)

\* the first 401 of a request, with auto-refresh on, a refresh token held and
\* client credentials configured, is about to be classified
C3_Trigger(t) ==
    /\ IsReq(t) /\ task[t].pc = "body" /\ task[t].phase = 1
    /\ task[t].resp.status = 401
    /\ auto_refresh_token /\ token_info.held /\ token_info.refresh_token
    /\ oauth_helper

C3_Step(t) ==
    /\ (C3_Trigger(t) /\ Steps(t))
          => /\ task'[t].pc = "refreshing"
             /\ task'[t].refreshes = 1
             /\ task'[t].calls = task[t].calls
    /\ (IsReq(t) /\ task[t].pc = "refreshing" /\ task'[t].phase = 2)
          => /\ task'[t].pc = "infunc"
             /\ task'[t].calls = task[t].calls + 1
             /\ task'[t].refreshes = 1
    /\ (IsReq(t) /\ task[t].phase = 2 /\ task[t].pc = "body"
        /\ task[t].resp.status = 401 /\ Steps(t))
          => /\ task'[t].pc = "done"
             /\ task'[t].calls = task[t].calls
             /\ task'[t].refreshes = task[t].refreshes

\* C3: such a 401 starts one token refresh; when the refresh succeeds the
\* request is re-issued once; a 401 answering the re-issued request ends the
\* call with no further refresh and no further resource request; no request
\* ever makes a second refresh.
C3_OneRefreshOneReissue ==
    /\ [](\A t \in Tasks : task[t].refreshes <= 1)
    /\ [][\A t \in Tasks : C3_Step(t)]_vars

\* a request ended by the 401 that answered its re-issue
C3_Witness ==
    \E t \in Tasks :
        /\ IsReq(t) /\ Done(t) /\ task[t].phase = 2
        /\ task[t].resp.status = 401
        /\ task[t].refreshes = 1 /\ task[t].calls = 2

\* C4 (as claimed): when the request re-issued after a successful refresh is
\* answered 401, the error surfaced is AuthenticationError.
C4_Second401IsAuthenticationError ==
    \A t \in Tasks :
        (IsReq(t) /\ Done(t) /\ task[t].phase = 2 /\ task[t].resp.status = 401)
        => task[t].err.type = "AuthenticationError"

\* C5 (as claimed): TokenExpiredError is not the error surfaced to the caller
\* of request unless the refresh itself failed.
C5_TokenExpiredNeverSurfaces ==
    \A t \in Tasks :
        (IsReq(t) /\ Raised(t) /\ ~RefreshFailed(t))
        => task[t].err.type # "TokenExpiredError"

C6_Step(t) ==
    (/\ IsReq(t) /\ task[t].pc = "body" /\ task[t].resp.status = 401
     /\ (~auto_refresh_token \/ ~token_info.held \/ ~token_info.refresh_token)
     /\ Steps(t))
    => /\ task'[t].pc = "done"
       /\ task'[t].result = "raised"
       /\ task'[t].err.type = "AuthenticationError"
       /\ task'[t].refreshes = task[t].refreshes
       /\ task'[t].calls = task[t].calls
       /\ issued' = issued /\ token_info' = token_info

\* C6: a 401 classified while auto_refresh_token is false, or no token is
\* held, or the held token has no refresh token, ends the call with
\* AuthenticationError: no token endpoint call, no re-issue.
C6_HardAuthFailure == [][\A t \in Tasks : C6_Step(t)]_vars

\* a first 401 surfaced as AuthenticationError with auto-refresh off
C6_Witness ==
    \E t \in Tasks :
        /\ IsReq(t) /\ Raised(t) /\ task[t].phase = 1
        /\ task[t].resp.status = 401
        /\ task[t].err.type = "AuthenticationError"
        /\ ~auto_refresh_token /\ token_info.held /\ token_info.refresh_token
        /\ task[t].refreshes = 0 /\ task[t].calls = 1

-----------------------------------------------------------------------------
(* retry_with_backoff *)

\* C7: with max_attempts >= 1, while every invocation so far has failed with
\* an error in retry_on, the wrapper has invoked at most max_attempts times,
\* sleeps only with an attempt left, and has finished exactly when the
\* max_attempts-th invocation failed, raising that invocation's failure.
C7_ExhaustionRaisesLast ==
    \A t \in Tasks :
        (/\ IsOp(t) /\ retry_config.max_attempts >= 1
         /\ \A e \in task[t].ops : e # NoError /\ e.type \in retry_config.retry_on)
        => /\ task[t].calls <= retry_config.max_attempts
           /\ task[t].pc = "sleeping" => task[t].calls < retry_config.max_attempts
           /\ Done(t) => /\ task[t].calls = retry_config.max_attempts
                         /\ task[t].result = "raised"
                         /\ task[t].err = task[t].last
                         /\ task[t].err \in task[t].ops
           /\ (task[t].calls = retry_config.max_attempts /\ task[t].pc # "infunc")
                 => Done(t)

\* three failing invocations out of three, then the failure raised
C7_Witness ==
    \E t \in Tasks :
        /\ IsOp(t) /\ Raised(t)
        /\ retry_config.max_attempts = MaxAttempts
        /\ task[t].calls = MaxAttempts
        /\ task[t].err.type \in retry_config.retry_on
        /\ Cardinality(task[t].ops) >= 2

\* C8: once an invocation has failed with an error outside retry_on the call
\* is over, that error raised: the wrapper neither invoked again nor slept
\* after it (every wait so far separates two invocations).
C8_NonRetryablePropagatesAtOnce ==
    \A t \in Tasks : \A e \in task[t].ops :
        (IsOp(t) /\ NonRetryable(e))
        => /\ Done(t)
           /\ task[t].result = "raised"
           /\ task[t].err = e
           /\ task[t].waits = task[t].calls - 1

\* a failure outside retry_on raised with two attempts left
C8_Witness ==
    \E t \in Tasks :
        /\ IsOp(t) /\ Raised(t)
        /\ NonRetryable(task[t].err)
        /\ task[t].calls = 1 /\ task[t].waits = 0
        /\ retry_config.max_attempts = MaxAttempts

-----------------------------------------------------------------------------
(* Concurrent refreshes *)

\* C9 (as claimed): at most one token refresh is in flight at any time.
C9_SingleFlightRefresh == Cardinality(Refreshing) <= 1

\* C10: whenever a task can run, the open session's Authorization header is
\* the one of the token_info held (none when no token is held): the pair is
\* never one credential's token with another's header.
C10_CredentialPairConsistent ==
    session = "open"
    => headers = IF token_info.held THEN AuthHeader(token_info) ELSE NoHeader

\* a second refresh has replaced the credential while another request is in
\* flight
C10_Witness ==
    /\ issued >= 2
    /\ token_info.access_token = issued
    /\ \E t \in Tasks : IsReq(t) /\ task[t].pc \in {"infunc", "body"}

-----------------------------------------------------------------------------
(* calculate_backoff_delay *)

BackoffApplied == fn.f = "calculate_backoff_delay" /\ fn.done

\* the delay of the exponential branch before jitter and cap
RawDelay == fn.config.base_delay * Pow(fn.config.exponential_base, fn.attempt)

\* C16: without a server hint the returned delay is at most config.max_delay,
\* for every attempt, configuration and jitter draw.
C16_DelayAtMostMaxDelay ==
    (BackoffApplied /\ ~fn.retry_after.some) => fn.out <= fn.config.max_delay

\* the cap at work: the jittered exponential delay exceeds max_delay
C16_Witness ==
    /\ BackoffApplied /\ ~fn.retry_after.some
    /\ fn.config.jitter /\ fn.u = 12 /\ fn.attempt = MaxAttempts
    /\ RawDelay > fn.config.max_delay
    /\ fn.out = fn.config.max_delay

\* C17 (as claimed): with a server hint the returned delay is both
\* >= retry_after and <= config.max_delay.
C17_HintedDelayBetweenHintAndMax ==
    (BackoffApplied /\ fn.retry_after.some)
    => /\ fn.out >= 10 * fn.retry_after.n
       /\ fn.out <= fn.config.max_delay

\* C17 (amended): with a server hint the returned delay is <= config.max_delay,
\* and >= retry_after whenever retry_after <= config.max_delay.
C17_HintedDelayCapped ==
    (BackoffApplied /\ fn.retry_after.some)
    => /\ fn.out <= fn.config.max_delay
       /\ (10 * fn.retry_after.n <= fn.config.max_delay)
             => fn.out >= 10 * fn.retry_after.n

\* a hint below max_delay, jittered upwards
C17_Witness ==
    /\ BackoffApplied /\ fn.retry_after.some
    /\ fn.config.jitter /\ fn.u01 = 5
    /\ fn.retry_after.n = 1 /\ fn.config.max_delay = 25
    /\ fn.out = 15

-----------------------------------------------------------------------------
(* check_response *)

ClassifyApplied == fn.f = "check_response" /\ fn.done

\* C14: every status 200..299 is a success: check_response returns without
\* raising.
C14_Every2xxIsSuccess ==
    (ClassifyApplied /\ fn.resp.status \in 200..299) => fn.out.exc = NoError

-----------------------------------------------------------------------------
(* Session scope, the sync facade, refresh_token, cancellation *)

\* a transport request of task t is in flight
InFlight(t) ==
    task[t].api \in {"request", "sync"} /\ task[t].pc \in {"infunc", "body"}

OpenSessions == (1..opened) \ closed

\* C11: every transport request is issued while the client's session is
\* acquired and not yet released: no session is closed while a request is in
\* flight on it and no request is attempted on a closed session.
C11_RequestsWithinSessionScope ==
    \A t \in Tasks :
        /\ InFlight(t) => task[t].sid \notin closed
        /\ ~task[t].onclosed

\* C12: a client owns at most one open (created, not yet closed) session.
C12_AtMostOneOpenSession == Cardinality(OpenSessions) <= 1

\* C13: a blocking operation of the sync facade called while an event loop is
\* running fails with ConfigurationError.
C13_RunningLoopIsConfigurationError ==
    \A t \in Tasks :
        task[t].inloop => (Raised(t) /\ task[t].err.type = "ConfigurationError")

\* the step in which task t's token exchange succeeds
C18_Step(t) ==
    (Steps(t) /\ task[t].pc = "refreshing" /\ issued' = issued + 1) =>
        /\ token_info'.held
        /\ token_info'.access_token = issued'
        /\ token_info' # token_info
        /\ headers' = <<token_info'.token_type, token_info'.access_token>>
        /\ (task[t].api = "request" /\ task'[t].pc = "infunc") =>
              /\ task'[t].phase = 2
              /\ task'[t].auth = <<token_info'.token_type, token_info'.access_token>>

\* C18: a successful refresh_token replaces token_info by the newly issued
\* token and sets the session's Authorization header from that same token, and
\* the request the dispatcher re-issues carries that header.
C18_RefreshReplacesCredential == [][\A t \in Tasks : C18_Step(t)]_vars

\* a re-issued request in flight with the credential of the token just issued
C18_Witness ==
    \E t \in Tasks :
        /\ task[t].api = "request" /\ task[t].phase = 2 /\ task[t].pc = "infunc"
        /\ issued = 1
        /\ token_info.access_token = 1
        /\ task[t].auth = <<token_info.token_type, 1>>

\* task t's direct call of refresh_token starts while no refresh token is held
C19_NoTokenStep(t) ==
    /\ Steps(t) /\ task[t].api = "refresh" /\ task[t].pc = "idle"
    /\ ~(token_info.held /\ token_info.refresh_token)

\* task t's token exchange is rejected
C19_RejectedStep(t) ==
    /\ Steps(t) /\ task[t].pc = "refreshing"
    /\ issued' = issued /\ ~task'[t].cancelled

C19_FailsWithRefreshTokenError(t) ==
    /\ task'[t].pc = "done" /\ task'[t].result = "raised"
    /\ task'[t].err.type = "RefreshTokenError"

\* C19 (as claimed): refresh_token raises RefreshTokenError when no refresh
\* token is held, without calling the token endpoint, and when the endpoint
\* rejects the exchange.
C19_RefreshTokenErrorAlways ==
    [][\A t \in Tasks :
          /\ C19_NoTokenStep(t) =>
                /\ C19_FailsWithRefreshTokenError(t)
                /\ task'[t].refreshes = 0 /\ issued' = issued
          /\ C19_RejectedStep(t) => C19_FailsWithRefreshTokenError(t)]_vars

\* C19 (amended): on a client constructed with client credentials,
\* refresh_token raises RefreshTokenError when no refresh token is held,
\* without calling the token endpoint, and when the endpoint rejects the
\* exchange.
C19_RefreshTokenErrorWithCredentials ==
    [][\A t \in Tasks :
          /\ (C19_NoTokenStep(t) /\ oauth_helper) =>
                /\ C19_FailsWithRefreshTokenError(t)
                /\ task'[t].refreshes = 0 /\ issued' = issued
          /\ C19_RejectedStep(t) => C19_FailsWithRefreshTokenError(t)]_vars

\* refresh_token called with credentials and no token at all has failed
C19_Witness ==
    \E t \in Tasks :
        /\ task[t].api = "refresh" /\ Raised(t)
        /\ task[t].err.type = "RefreshTokenError"
        /\ task[t].refreshes = 0
        /\ oauth_helper /\ ~token_info.held /\ session = "open"

-----------------------------------------------------------------------------
(* Backoff waits *)

\* C21: while a task is suspended in a backoff wait, every other task that has
\* not finished can take its next step: the wait blocks none of them.
C21_WaitBlocksNoOtherTask ==
    \A t \in Tasks : \A u \in Tasks \ {t} :
        (task[t].pc = "sleeping" /\ ~Done(u)) => ENABLED TaskStep(u)

\* a request has gone from start to its response while the other task is in
\* its first backoff wait
C21_Witness ==
    /\ task[1].pc = "sleeping" /\ task[1].waits = 1
    /\ IsReq(2) /\ Done(2) /\ task[2].result = "response" /\ task[2].calls = 2

\* task t starts a backoff wait
C26_Step(t) ==
    (Steps(t) /\ task'[t].pc = "sleeping") =>
    LET k == task[t].waits
        d == task'[t].waited - task[t].waited
        e == task'[t].last
        hint == IF e.type = "RateLimitError" THEN e.retry_after ELSE NoInt
        c == retry_config
    IN  /\ task[t].calls = k + 1
        /\ \E j \in JitterDraws(c) :
              d = calculate_backoff_delay(k, c, hint, j[1], j[2])
        /\ (~c.jitter /\ ~hint.some) =>
              LET raw == c.base_delay * Pow(c.exponential_base, k)
              IN  d = IF raw <= c.max_delay THEN raw ELSE c.max_delay
        /\ (~c.jitter /\ ~hint.some /\ k = 0 /\ c.base_delay <= c.max_delay) =>
              d = c.base_delay

\* C26: attempts are numbered from 0: the wait after the k-th failed
\* invocation (k = 0, 1, ...) is calculate_backoff_delay(k, config, hint), hint
\* being the failure's retry_after for a RateLimitError and absent otherwise;
\* with jitter off and no hint it is min(base_delay * exponential_base^k,
\* max_delay), so the first retry waits base_delay.
C26_WaitIsBackoffOfAttempt == [][\A t \in Tasks : C26_Step(t)]_vars

\* the second wait of a jitter-free run: base_delay, then twice base_delay
C26_Witness ==
    \E t \in Tasks :
        /\ IsOp(t) /\ task[t].pc = "sleeping"
        /\ ~retry_config.jitter /\ retry_config.max_delay = 600
        /\ task[t].ops = {Exc("ServerError", NoInt, 500)}
        /\ task[t].waits = 2 /\ task[t].waited = 30

\* C27: the wrapper stops at the first success: a result returned on the n-th
\* invocation comes after n - 1 waits with n <= max_attempts, and nothing runs
\* after a success; when the attempts are exhausted there were max_attempts
\* invocations and max_attempts - 1 waits, none after the final failure.
C27_StopsAtFirstSuccess ==
    \A t \in Tasks :
        (IsOp(t) /\ retry_config.max_attempts >= 1) =>
            /\ task[t].waits <= task[t].calls
            /\ NoError \in task[t].ops => (Done(t) /\ task[t].result = "value")
            /\ (Done(t) /\ task[t].result = "value") =>
                  /\ NoError \in task[t].ops
                  /\ task[t].calls <= retry_config.max_attempts
                  /\ task[t].waits = task[t].calls - 1
            /\ (Raised(t) /\ task[t].err.type \in retry_config.retry_on) =>
                  /\ task[t].calls = retry_config.max_attempts
                  /\ task[t].waits = retry_config.max_attempts - 1

\* success on the last invocation the budget allows
C27_Witness ==
    \E t \in Tasks :
        /\ IsOp(t) /\ Done(t) /\ task[t].result = "value"
        /\ retry_config.max_attempts = MaxAttempts
        /\ task[t].calls = MaxAttempts /\ task[t].waits = MaxAttempts - 1

\* C30: for every RetryConfig the wrapper invokes the operation at least once
\* and ends with a result the operation returned or a failure it raised.
C30_InvokesAtLeastOnce ==
    \A t \in Tasks :
        (IsOp(t) /\ Done(t)) =>
            /\ task[t].calls >= 1
            /\ \/ task[t].result = "value" /\ NoError \in task[t].ops
               \/ task[t].result = "raised" /\ task[t].err \in task[t].ops

-----------------------------------------------------------------------------
(* Transport calls per request, termination *)

\* C28: a finished request on an entered client has made one or two transport
\* calls, never more, whatever the responses and the retry_config; two only
\* when its first response was a 401 followed by a successful refresh.
C28_OneOrTwoTransportCalls ==
    \A t \in Tasks :
        IsReq(t) =>
            /\ task[t].calls <= 2
            /\ (Done(t) /\ task[t].err.type # "RuntimeError") => task[t].calls >= 1
            /\ task[t].calls = 2 =>
                  /\ task[t].phase = 2 /\ task[t].refreshes = 1
                  /\ Response(401, HdrAbsent) \in task[t].seen

\* C29: every call terminates, a request after at most two transport calls
\* per allowed attempt, one refresh and no more waits than calls.
C29_RequestTerminates ==
    /\ \A t \in Tasks : <>Done(t)
    /\ [](\A t \in Tasks :
            IsReq(t) =>
                /\ task[t].refreshes <= 1
                /\ task[t].waits <= task[t].calls
                /\ task[t].calls <=
                      2 * (IF retry_config.max_attempts >= 1
                           THEN retry_config.max_attempts ELSE 1))

\* the longest request: a 401, a refresh, the re-issue answered with a 429
C29_Witness ==
    \E t \in Tasks :
        /\ IsReq(t) /\ Raised(t) /\ task[t].err.type = "RateLimitError"
        /\ task[t].calls = 2 /\ task[t].refreshes = 1

-----------------------------------------------------------------------------
(* save_token *)

\* C22: save_token with a token held succeeds for every path, with or without
\* client credentials: the token is written to the path and every parent
\* directory of the path exists afterwards.
C22_SaveSucceedsForEveryPath ==
    (fn.f = "save_token" /\ fn.done /\ token_info.held) =>
        /\ fn.out.exc = NoError
        /\ fn.out.saved = {<<fn.path, token_info>>}
        /\ \A n \in 1..(Len(fn.path) - 1) : SubSeq(fn.path, 1, n) \in fn.out.dirs

-----------------------------------------------------------------------------
(* Pagination *)

WalkDone(f, mode) == fn.f = f /\ fn.mode = mode /\ fn.pc = "done"

\* C23: the blocking client's iterate returns the records the non-blocking
\* iterate yields over the same collection, in the same order, every page
\* fetch of the walk having completed.
C23_BlockingIterateReturnsAll ==
    WalkDone("iterate", "sync") =>
        /\ fn.out.exc = NoError
        /\ fn.out.value = AllRecords(fn.sizes)
        /\ fn.fetches = Len(fn.sizes) /\ fn.inflight = 0

-----------------------------------------------------------------------------
(* Classification of every non-200 response *)

\* C31 (as claimed): for every non-200 response, whatever its status, body
\* and Retry-After header (absent, a decimal integer, or another value such as
\* an HTTP date), check_response raises an error of the WhoopException
\* taxonomy: no other exception type escapes.
C31_OnlyTaxonomyErrors ==
    (ClassifyApplied /\ fn.resp.status # 200) =>
        fn.out.exc.type \in WhoopExceptions

-----------------------------------------------------------------------------
(* Refresh without client credentials *)

\* the first 401 of a request is about to be classified on a client built
\* without client_id / client_secret, auto-refresh on, a refresh token held
C32_Trigger(t) ==
    /\ IsReq(t) /\ task[t].pc = "body" /\ task[t].phase = 1
    /\ task[t].resp.status = 401
    /\ auto_refresh_token /\ token_info.held /\ token_info.refresh_token
    /\ ~oauth_helper

\* C32: on a client built without client credentials, holding a refresh token,
\* auto-refresh on, a 401 makes request raise ConfigurationError (raised by
\* refresh_token): no token endpoint call, no re-issue of the request,
\* token_info and the header unchanged.
C32_NoCredentialsIsConfigurationError ==
    [][\A t \in Tasks :
          (C32_Trigger(t) /\ Steps(t)) =>
              /\ task'[t].pc = "done" /\ task'[t].result = "raised"
              /\ task'[t].err.type = "ConfigurationError"
              /\ task'[t].phase = 1
              /\ task'[t].refreshes = 0 /\ issued' = issued
              /\ task'[t].calls = task[t].calls /\ task'[t].calls = 1
              /\ token_info' = token_info /\ headers' = headers]_vars

\* a request ended by ConfigurationError after its one transport call
C32_Witness ==
    \E t \in Tasks :
        /\ IsReq(t) /\ Raised(t) /\ task[t].err.type = "ConfigurationError"
        /\ task[t].resp.status = 401 /\ task[t].calls = 1 /\ task[t].refreshes = 0
        /\ ~oauth_helper /\ auto_refresh_token /\ token_info = Token(0, TRUE)
        /\ issued = 0

-----------------------------------------------------------------------------
(* Refresh only in reaction to a 401 *)

\* C33: request refreshes only in reaction to a 401. A request none of whose
\* responses is a 401 makes no token endpoint call, and none of its steps
\* changes token_info or the Authorization header, even when the token held is
\* already expired.
C33_RefreshOnlyOn401 ==
    /\ [](\A t \in Tasks :
            (IsReq(t) /\ \A resp \in task[t].seen : resp.status # 401) =>
                /\ task[t].refreshes = 0
                /\ task[t].pc # "refreshing"
                /\ task[t].phase = 1)
    /\ [][\A t \in Tasks :
            (IsReq(t) /\ Steps(t)
             /\ \A resp \in task'[t].seen : resp.status # 401) =>
                /\ token_info' = token_info
                /\ headers' = headers
                /\ issued' = issued]_vars

\* a request on a refresh-capable client holding an expired token has ended
\* with the 503 it was answered, the expired token still in place
C33_Witness ==
    \E t \in Tasks :
        /\ IsReq(t) /\ Raised(t) /\ task[t].err.type = "ServerError"
        /\ task[t].seen = {Response(503, HdrAbsent)}
        /\ task[t].calls = 1 /\ task[t].refreshes = 0
        /\ token_info = ExpiredToken(0, TRUE) /\ token_info.is_expired
        /\ auto_refresh_token /\ oauth_helper
        /\ issued = 0 /\ headers = AuthHeader(token_info)

-----------------------------------------------------------------------------
(* A failed refresh *)

\* task t's call of refresh_token (direct, or made by request after a 401)
\* raises in this step
C34_FailsNow(t) ==
    /\ Steps(t)
    /\ task[t].pc \in {"idle", "body", "refreshing"}
    /\ task'[t].pc = "done" /\ task'[t].result = "raised"
    /\ task'[t].phase = 1
    /\ task'[t].err.type \in {"ConfigurationError", "RefreshTokenError"}

\* task t's call of refresh_token reaches the token endpoint in this step
C34_BeginsNow(t) ==
    Steps(t) /\ task[t].pc # "refreshing" /\ task'[t].pc = "refreshing"

\* C34: a refresh_token call that fails (ConfigurationError, no refresh token
\* held, or the exchange raising) leaves token_info and the session's
\* Authorization header as they were: neither the step that starts the
\* exchange nor the step in which the call raises changes them, and no token
\* is issued.
C34_FailedRefreshChangesNothing ==
    [][\A t \in Tasks :
          (C34_FailsNow(t) \/ C34_BeginsNow(t)) =>
              /\ token_info' = token_info
              /\ headers' = headers
              /\ issued' = issued]_vars

\* a direct refresh_token call whose exchange was rejected: the token and the
\* header of before the call are in place
C34_Witness ==
    \E t \in Tasks :
        /\ task[t].api = "refresh" /\ Raised(t)
        /\ task[t].err.type = "RefreshTokenError" /\ task[t].refreshes = 1
        /\ ~task[t].cancelled
        /\ issued = 0 /\ token_info = Token(0, TRUE)
        /\ session = "open" /\ headers = AuthHeader(Token(0, TRUE))

-----------------------------------------------------------------------------
(* A blocking call rejected inside a running event loop *)

\* C35: a blocking facade call made while an event loop is running is rejected
\* before anything of the wrapped operation runs: the task has issued no
\* transport request and no token refresh, and the step that rejects it opens
\* or closes no session and changes neither token_info nor the header.
C35_RejectedCallRunsNothing ==
    /\ [](\A t \in Tasks :
            task[t].inloop =>
                /\ Raised(t)
                /\ task[t].calls = 0 /\ task[t].seen = {}
                /\ task[t].refreshes = 0
                /\ task[t].sid = 0 /\ ~task[t].onclosed)
    /\ [][\A t \in Tasks :
            (task'[t].inloop /\ ~task[t].inloop) =>
                /\ opened' = opened /\ closed' = closed /\ session' = session
                /\ token_info' = token_info /\ headers' = headers
                /\ issued' = issued]_vars

\* a handler call of a constructed blocking client rejected inside a running
\* loop: the one session is the constructor's
C35_Witness ==
    \E c, t \in Tasks :
        /\ task[c].api = "construct" /\ task[c].result = "value"
        /\ task[t].api = "sync" /\ task[t].inloop /\ Raised(t)
        /\ task[t].calls = 0
        /\ opened = 1 /\ closed = {1} /\ issued = 0

====
